---------------------------- MODULE Spec2Model ----------------------------
(***************************************************************************)
(* Model of 64byteToBase58.py: parse_input, bytes_to_int, encode_base58    *)
(* and main.                                                               *)
(*                                                                         *)
(* Python strings are sequences of one-character strings.  Python's        *)
(* unbounded int is a sequence of 15-bit limbs, least significant first,   *)
(* without high zero limbs (the layout CPython uses with 15-bit digits);   *)
(* the empty sequence is 0.  Small ints (byte values, remainders, counts)  *)
(* are TLA+ integers.                                                      *)
(***************************************************************************)
EXTENDS Integers, Sequences, FiniteSets, TLC

(***************************************************************************)
(* Program constants                                                       *)
(***************************************************************************)

\* BASE58_ALPHABET as the 58 characters 0-9, A-Z, a-v, the ambiguous ones kept.
AlphabetWithZero ==
    << "0","1","2","3","4","5","6","7","8","9",
       "A","B","C","D","E","F","G","H","I","J","K","L","M","N","O","P","Q","R",
       "S","T","U","V","W","X","Y","Z",
       "a","b","c","d","e","f","g","h","i","j","k","l","m","n","o","p","q","r",
       "s","t","u","v" >>

\* line 5: the Base58 alphabet; Python index k is position k + 1 here.
BASE58_ALPHABET ==
    << "1","2","3","4","5","6","7","8","9",
       "A","B","C","D","E","F","G","H","J","K","L","M","N","P","Q","R","S",
       "T","U","V","W","X","Y","Z",
       "a","b","c","d","e","f","g","h","i","j","k","m","n","o","p","q","r",
       "s","t","u","v","w","x","y","z" >>

\* line 21: the number of comma-separated parts parse_input requires.
NumBytes == 64

\* line 67: the divisor of the conversion loop.
Base == 58

(***************************************************************************)
(* Python evaluates the arguments of a call once, before the call.  An     *)
(* operator below that uses an argument more than once binds it first, as  *)
(* in    Op(x0) == CHOOSE r \in { body(x) : x \in {x0} } : TRUE ,          *)
(* which is body(x0) with x0 evaluated once.  A loop over positions        *)
(* lo..hi is written as the loop over the first half followed by the loop  *)
(* over the second half, which runs the same iterations in the same order. *)
(***************************************************************************)

(***************************************************************************)
(* Python str operations                                                   *)
(***************************************************************************)

Whitespace == {" ", "\t"}

\* str.lower() on one character (the letters that occur in the inputs).
Lower(c) ==
    CASE c = "A" -> "a" [] c = "B" -> "b" [] c = "C" -> "c" [] c = "D" -> "d"
      [] c = "E" -> "e" [] c = "F" -> "f" [] c = "G" -> "g" [] c = "X" -> "x"
      [] OTHER -> c

\* str.strip(): from the first to the last character that is no whitespace.
Strip(s0) ==
    CHOOSE r \in
      { CHOOSE t \in
          { IF ink = {} THEN <<>>
            ELSE SubSeq(s, CHOOSE i \in ink : \A j \in ink : i <= j,
                           CHOOSE i \in ink : \A j \in ink : i >= j) :
              ink \in { {i \in 1..Len(s) : s[i] \notin Whitespace} } } : TRUE :
        s \in {s0} } : TRUE

\* str.startswith(p) / str.endswith(p)
StartsWith(s, p) == Len(s) >= Len(p) /\ SubSeq(s, 1, Len(p)) = p
EndsWith(s, p) == Len(s) >= Len(p) /\ SubSeq(s, Len(s) - Len(p) + 1, Len(s)) = p

\* The positions of the commas of s, in order.
CommaSeq(s0) ==
    CHOOSE r \in
      { SelectSeq([i \in 1..Len(s) |-> i], LAMBDA i : s[i] = ",") :
        s \in {s0} } : TRUE

\* str.split(","): the parts between the commas, at least one part.
Split(s0) ==
    CHOOSE r \in
      { [k \in 1..(Len(cs) + 1) |->
            SubSeq(s, (IF k = 1 THEN 0 ELSE cs[k - 1]) + 1,
                      (IF k > Len(cs) THEN Len(s) + 1 ELSE cs[k]) - 1)] :
        s \in {s0}, cs \in {CommaSeq(s0)} } : TRUE

(***************************************************************************)
(* Python int(str, base) for base 10 and 16                                *)
(***************************************************************************)

HexDigits ==
    << "0","1","2","3","4","5","6","7","8","9","a","b","c","d","e","f" >>

\* The value of character c as a digit, or 99 when it is no digit.
DigitVal(c) ==
    IF \E k \in 1..16 : HexDigits[k] = Lower(c)
    THEN (CHOOSE k \in 1..16 : HexDigits[k] = Lower(c)) - 1
    ELSE 99

\* A digit string as int() accepts it: digits of the base, single
\* underscores only between digits.
IsDigits(s, base) ==
    /\ s # <<>>
    /\ s[1] # "_"
    /\ s[Len(s)] # "_"
    /\ \A i \in 1..Len(s) :
          \/ DigitVal(s[i]) < base
          \/ s[i] = "_" /\ s[i + 1] # "_"

\* The value of the digits s[i..], the digits before them being worth acc.
RECURSIVE DigitsValue(_, _, _, _)
DigitsValue(s0, i0, base, acc0) ==
    CHOOSE r \in
      { IF i > Len(s) THEN acc
        ELSE IF s[i] = "_" THEN DigitsValue(s, i + 1, base, acc)
        ELSE DigitsValue(s, i + 1, base, acc * base + DigitVal(s[i])) :
        s \in {s0}, i \in {i0}, acc \in {acc0} } : TRUE

\* The digits of s: the sign, and for base 16 a 0x / 0X prefix with one
\* underscore after it, removed.
IntBody(s, base) ==
    CHOOSE r \in
      { CHOOSE u \in
          { IF base = 16 /\ Len(s2) >= 2 /\ s2[1] = "0" /\ Lower(s2[2]) = "x"
            THEN (IF Len(s2) >= 3 /\ s2[3] = "_" THEN SubSeq(s2, 4, Len(s2))
                                                 ELSE SubSeq(s2, 3, Len(s2)))
            ELSE s2 :
              s2 \in { IF s1 # <<>> /\ s1[1] \in {"+", "-"} THEN Tail(s1)
                                                            ELSE s1 } } : TRUE :
        s1 \in {Strip(s)} } : TRUE

\* int(s, base): [ok |-> TRUE, val |-> v], or ok = FALSE for ValueError.
PyInt(s0, base) ==
    CHOOSE r \in
      { IF IsDigits(d, base)
        THEN [ok |-> TRUE,
              val |-> IF s1 # <<>> /\ s1[1] = "-"
                      THEN 0 - DigitsValue(d, 1, base, 0)
                      ELSE DigitsValue(d, 1, base, 0)]
        ELSE [ok |-> FALSE, val |-> 0] :
        s1 \in {Strip(s0)}, d \in {IntBody(s0, base)} } : TRUE

\* f"{val:02x}" for 0 <= val <= 255
Hex02(val) == << HexDigits[(val \div 16) + 1], HexDigits[(val % 16) + 1] >>

(***************************************************************************)
(* Python int arithmetic on 15-bit limbs                                   *)
(***************************************************************************)

Limb == 2 ^ 15

\* Drop high zero limbs.
BigNorm(n0) ==
    CHOOSE r \in
      { CHOOSE t \in
          { IF nz = {} THEN <<>>
            ELSE SubSeq(n, 1, CHOOSE i \in nz : \A j \in nz : i >= j) :
              nz \in { {i \in 1..Len(n) : n[i] # 0} } } : TRUE :
        n \in {n0} } : TRUE

\* n * m + a for small m, a: the limbs lo..hi of n are multiplied in order,
\* st.c being the carry and st.out the limbs of the product found so far.
RECURSIVE BigMulRange(_, _, _, _, _)
BigMulRange(n0, m, st0, lo0, hi0) ==
    CHOOSE x \in
      { IF lo > hi THEN st
        ELSE IF lo = hi
        THEN [c   |-> (n[lo] * m + st.c) \div Limb,
              out |-> Append(st.out, (n[lo] * m + st.c) % Limb)]
        ELSE BigMulRange(n, m, BigMulRange(n, m, st, lo, (lo + hi) \div 2),
                         ((lo + hi) \div 2) + 1, hi) :
        n \in {n0}, st \in {st0}, lo \in {lo0}, hi \in {hi0} } : TRUE

\* n * m + a for 0 <= m, a < Limb
BigMulAdd(n, m, a) ==
    CHOOSE x \in
      { IF st.c = 0 THEN st.out ELSE Append(st.out, st.c) :
        st \in {BigMulRange(n, m, [c |-> a, out |-> <<>>], 1, Len(n))} } : TRUE

\* Long division by small d: the limbs hi down to lo of n are divided in
\* turn, st.r being the remainder carried and st.q the quotient limbs found.
RECURSIVE BigDivRange(_, _, _, _, _)
BigDivRange(n0, d, st0, lo0, hi0) ==
    CHOOSE x \in
      { IF lo > hi THEN st
        ELSE IF lo = hi
        THEN [r |-> (st.r * Limb + n[lo]) % d,
              q |-> << (st.r * Limb + n[lo]) \div d >> \o st.q]
        ELSE BigDivRange(n, d,
                         BigDivRange(n, d, st, ((lo + hi) \div 2) + 1, hi),
                         lo, (lo + hi) \div 2) :
        n \in {n0}, st \in {st0}, lo \in {lo0}, hi \in {hi0} } : TRUE

\* divmod(n, d) for 0 < d < 2^16
BigDivMod(n, d) ==
    CHOOSE x \in
      { [q |-> BigNorm(st.q), r |-> st.r] :
        st \in {BigDivRange(n, d, [r |-> 0, q |-> <<>>], 1, Len(n))} } : TRUE

\* n > 0
BigPos(n) == n # <<>>

\* a < b
BigLess(a0, b0) ==
    CHOOSE r \in
      { \/ Len(a) < Len(b)
        \/ /\ Len(a) = Len(b)
           /\ \E i \in 1..Len(a) :
                 /\ a[i] < b[i]
                 /\ \A j \in (i + 1)..Len(a) : a[j] = b[j] :
        a \in {a0}, b \in {b0} } : TRUE

(***************************************************************************)
(* bytes_to_int (lines 48-55)                                              *)
(***************************************************************************)

\* line 54: [int(x, 16) for x in byte_list]
IntBytes(bl0) ==
    CHOOSE r \in
      { [i \in 1..Len(bl) |-> PyInt(bl[i], 16).val] : bl \in {bl0} } : TRUE

\* line 55: int.from_bytes(..., byteorder='big'): the first byte is the most
\* significant; the bytes lo..hi are taken into acc in order.
RECURSIVE FromBytesRange(_, _, _, _)
FromBytesRange(ints0, acc0, lo0, hi0) ==
    CHOOSE x \in
      { IF lo > hi THEN acc
        ELSE IF lo = hi THEN BigMulAdd(acc, 256, ints[lo])
        ELSE FromBytesRange(ints,
                            FromBytesRange(ints, acc, lo, (lo + hi) \div 2),
                            ((lo + hi) \div 2) + 1, hi) :
        ints \in {ints0}, acc \in {acc0}, lo \in {lo0}, hi \in {hi0} } : TRUE

\* bytes_to_int with byteorder='little': the last byte is the most significant.
BytesToIntLittle(bl) ==
    CHOOSE x \in
      { FromBytesRange([i \in 1..Len(ints) |-> ints[Len(ints) + 1 - i]],
                       <<>>, 1, Len(ints)) :
        ints \in {IntBytes(bl)} } : TRUE

bytes_to_int(bl) ==
    CHOOSE x \in
      { FromBytesRange(ints, <<>>, 1, Len(ints)) : ints \in {IntBytes(bl)} } : TRUE

(***************************************************************************)
(* encode_base58 (lines 57-78)                                             *)
(***************************************************************************)

\* lines 67-68: one iteration of the loop body.
LoopBody(n, enc) ==
    CHOOSE r \in
      { [num |-> qr.q, remainder |-> qr.r,
         encoded |-> << BASE58_ALPHABET[qr.r + 1] >> \o enc] :
        qr \in {BigDivMod(n, Base)} } : TRUE

\* lines 66-68: the loop test and the body; nothing happens once num is 0.
LoopOnce(st) ==
    IF BigPos(st.num) THEN LoopBody(st.num, st.encoded) ELSE st

\* k turns of the loop.
RECURSIVE LoopTimes(_, _)
LoopTimes(st0, k0) ==
    CHOOSE x \in
      { IF k = 0 THEN st
        ELSE IF k = 1 THEN LoopOnce(st)
        ELSE LoopTimes(LoopTimes(st, k \div 2), k - (k \div 2)) :
        st \in {st0}, k \in {k0} } : TRUE

\* lines 65-68: the whole loop, k turns at a time until num is 0.
RECURSIVE WhileFrom(_, _)
WhileFrom(st0, k0) ==
    CHOOSE x \in
      { IF BigPos(st.num) THEN WhileFrom(LoopTimes(st, k), 2 * k) ELSE st :
        st \in {st0}, k \in {k0} } : TRUE

WhileLoop(n, enc) ==
    WhileFrom([num |-> n, remainder |-> 0, encoded |-> enc], 1).encoded

\* lines 71-76: the count of leading zero bytes: the bytes before the first
\* one that is not zero.
LeadingZeros(bl0) ==
    CHOOSE r \in
      { CHOOSE t \in
          { IF nz = {} THEN Len(bl)
            ELSE (CHOOSE i \in nz : \A j \in nz : i <= j) - 1 :
              nz \in { {i \in 1..Len(bl) : PyInt(bl[i], 16).val # 0} } } : TRUE :
        bl \in {bl0} } : TRUE

\* str * n
Repeat(c, n) == [i \in 1..n |-> c]

\* line 78 without the padding.
ResultNoPad(n, enc) == enc

\* line 78 with one "1" per leading zero hex digit, two per zero byte.
ResultPadPerDigit(n, enc) == Repeat(BASE58_ALPHABET[1], 2 * n) \o enc

\* line 78: BASE58_ALPHABET[0] * n_leading_zeros + encoded
Result(n, enc) == Repeat(BASE58_ALPHABET[1], n) \o enc

encode_base58(bl0) ==
    CHOOSE r \in
      { Result(LeadingZeros(bl), WhileLoop(bytes_to_int(bl), <<>>)) :
        bl \in {bl0} } : TRUE

(***************************************************************************)
(* parse_input (lines 7-46)                                                *)
(***************************************************************************)

\* lines 15-17: strip, then drop the brackets when both are present.
Unbracket(s) ==
    CHOOSE r \in
      { IF StartsWith(t, << "[" >>) /\ EndsWith(t, << "]" >>)
        THEN SubSeq(t, 2, Len(t) - 1)
        ELSE t :
        t \in {Strip(s)} } : TRUE

\* lines 27-30: strip the part, then drop a 0x / 0X prefix.
Token(part) ==
    CHOOSE r \in
      { IF StartsWith(t, << "0", "x" >>) \/ StartsWith(t, << "0", "X" >>)
        THEN SubSeq(t, 3, Len(t))
        ELSE t :
        t \in {Strip(part)} } : TRUE

\* line 34 without .lower(): any(c in token for c in "abcdef")
HasHexLetterCased(token) ==
    \E i \in 1..Len(token) : token[i] \in {"a", "b", "c", "d", "e", "f"}

\* line 34: any(c in token.lower() for c in "abcdef")
HasHexLetter(token) ==
    \E i \in 1..Len(token) : Lower(token[i]) \in {"a", "b", "c", "d", "e", "f"}

\* lines 35-38: int(token, 16) when a letter a-f occurs, int(token) otherwise.
TokenInt(token) ==
    IF HasHexLetter(token) THEN PyInt(token, 16) ELSE PyInt(token, 10)

\* lines 39-40: the range check.
InRange(val) == 0 <= val /\ val <= 255

\* lines 27-45 for one part: the byte as a two-digit hex string, or ok = FALSE
\* when a ValueError is raised (int() fails or the value is out of range).
ParseToken(part) ==
    CHOOSE x \in
      { CHOOSE y \in
          { IF r.ok /\ InRange(r.val)
            THEN [ok |-> TRUE, hex |-> Hex02(r.val), token |-> token]
            ELSE [ok |-> FALSE, hex |-> <<>>, token |-> token] :
              r \in {TokenInt(token)} } : TRUE :
        token \in {Token(part)} } : TRUE

\* The length check as len(parts) > 64.
LengthAtMost(parts) == Len(parts) <= NumBytes

\* lines 20-23: the length check.
LengthOk(parts) == Len(parts) = NumBytes

\* lines 25-46 on the parts: the byte list, or the error line printed before
\* sys.exit(1); the first failing part ends the loop.
ParseParts(parts) ==
    CHOOSE x \in
      { CHOOSE y \in
          { IF bad # {}
            THEN [ok |-> FALSE, byte_list |-> <<>>,
                  err |-> [msg |-> "Error parsing byte",
                           arg |-> toks[CHOOSE i \in bad : \A j \in bad : i <= j].token,
                           n |-> 0]]
            ELSE [ok |-> TRUE,
                  byte_list |-> [i \in 1..Len(toks) |-> toks[i].hex],
                  err |-> [msg |-> "", arg |-> <<>>, n |-> 0]] :
              bad \in { {i \in 1..Len(toks) : ~toks[i].ok} } } : TRUE :
        toks \in { [i \in 1..Len(parts) |-> ParseToken(parts[i])] } } : TRUE

\* The whole function.
parse_input(s) ==
    CHOOSE x \in
      { IF ~LengthOk(parts)
        THEN [ok |-> FALSE, byte_list |-> <<>>,
              err |-> [msg |-> "Error: exactly 64 bytes are required",
                       arg |-> <<>>, n |-> Len(parts)]]
        ELSE ParseParts(parts) :
        parts \in {Split(Unbracket(s))} } : TRUE

(***************************************************************************)
(* The inputs the runs are given                                           *)
(***************************************************************************)

\* Runs of leading zero bytes tried: 0..MaxLead and NumBytes-MaxLead..NumBytes.
MaxLead == 2

ZeroRuns == (0..MaxLead) \cup ((NumBytes - MaxLead)..NumBytes)

ZeroToken == << "0", "0" >>

\* The token that follows the zero run.
Tokens ==
    { << "0", "x", "1", "a" >>, << "1", "A" >>, << "2", "6" >>,
      << "0", "x", "1", "0" >>, << "1", "0" >>, << "0", "X", "F", "f" >>,
      << "0", "1" >>, << "5", "8" >>, << "+", "7" >>, << "1", "_", "0" >>,
      << "2", "5", "6" >>, << "-", "1" >>, << "1", "g" >>, << "1", "0", "0" >>,
      << "0", "x" >>, <<>> }

\* The token repeated after it up to the end.
Fillers == { << "f", "f" >>, << "0" >>, << "3", "9" >> }

\* ", ".join(parts[lo..hi])
RECURSIVE JoinRange(_, _, _)
JoinRange(parts0, lo0, hi0) ==
    CHOOSE r \in
      { IF lo > hi THEN <<>>
        ELSE IF lo = hi THEN parts[lo]
        ELSE JoinRange(parts, lo, (lo + hi) \div 2) \o << ",", " " >>
                 \o JoinRange(parts, ((lo + hi) \div 2) + 1, hi) :
        parts \in {parts0}, lo \in {lo0}, hi \in {hi0} } : TRUE

\* What the user types: z zero tokens, token t, then filler f up to n parts,
\* inside the wrapping w.
Typed(z, t, f, n, w) ==
    CHOOSE r \in
      { CASE w = "brackets" -> << "[" >> \o body \o << "]" >>
          [] w = "bare"     -> body
          [] w = "spaced"   -> << " ", "[" >> \o body \o << "]", " ", " " >>
          [] w = "open"     -> << "[" >> \o body :
        body \in { JoinRange([i \in 1..n |-> IF i <= z THEN ZeroToken
                                            ELSE IF i = z + 1 THEN t ELSE f],
                             1, n) } } : TRUE

Wraps == {"brackets", "bare", "spaced", "open"}

MainInputs ==
    { Typed(z, t, f, NumBytes, "brackets") :
          z \in ZeroRuns, t \in Tokens, f \in Fillers }
    \cup
    { Typed(NumBytes - 2, << "1", "A" >>, << "f", "f" >>, n, w) :
          n \in {1, NumBytes - 1, NumBytes, NumBytes + 1}, w \in Wraps }
    \cup { <<>> }

\* The byte lists two independent callers pass to encode_base58.
PairInputs ==
    { parse_input(Typed(z, << "0", "1" >>, << "f", "f" >>, NumBytes, "bare")).byte_list :
          z \in {0, NumBytes - 1, NumBytes} }

(***************************************************************************)
(* State                                                                   *)
(***************************************************************************)

VARIABLES
    pc,               \* where each caller is
    user_input,       \* main: the line read by input()
    byte_list,        \* the list of two-digit hex strings
    num,              \* encode_base58: num
    remainder,        \* encode_base58: remainder
    encoded,          \* encode_base58: encoded
    idx,              \* encode_base58: position of the for loop in byte_list
    n_leading_zeros,  \* encode_base58: n_leading_zeros
    base58_str,       \* the value encode_base58 returned
    stdout            \* the lines printed

vars == << pc, user_input, byte_list, num, remainder, encoded, idx,
           n_leading_zeros, base58_str, stdout >>

Callers == DOMAIN pc

Fresh(P) ==
    /\ num = [c \in P |-> <<>>]
    /\ remainder = [c \in P |-> 0]
    /\ encoded = [c \in P |-> <<>>]
    /\ idx = [c \in P |-> 0]
    /\ n_leading_zeros = [c \in P |-> 0]
    /\ base58_str = [c \in P |-> <<>>]
    /\ stdout = <<>>

\* One run of main (lines 80-85), the line already typed.
Init ==
    /\ pc = [c \in {1} |-> "parse_input"]
    /\ user_input \in [{1} -> MainInputs]
    /\ byte_list = [c \in {1} |-> <<>>]
    /\ Fresh({1})

\* Two callers about to run encode_base58 on byte lists of their own.
InitPair ==
    /\ pc = [c \in {1, 2} |-> "encode_base58"]
    /\ user_input = [c \in {1, 2} |-> <<>>]
    /\ byte_list \in [{1, 2} -> PairInputs]
    /\ Fresh({1, 2})

(***************************************************************************)
(* Steps                                                                   *)
(***************************************************************************)

\* line 82, parse_input returns.
ParseReturn(c) ==
    /\ pc[c] = "parse_input"
    /\ \E r \in {parse_input(user_input[c])} :
           /\ r.ok
           /\ byte_list' = [byte_list EXCEPT ![c] = r.byte_list]
    /\ pc' = [pc EXCEPT ![c] = "encode_base58"]
    /\ UNCHANGED << user_input, num, remainder, encoded, idx, n_leading_zeros,
                    base58_str, stdout >>

\* line 82, parse_input prints an error and calls sys.exit(1).
ParseExit(c) ==
    /\ pc[c] = "parse_input"
    /\ \E r \in {parse_input(user_input[c])} :
           /\ ~r.ok
           /\ stdout' = Append(stdout, r.err)
    /\ pc' = [pc EXCEPT ![c] = "exit"]
    /\ UNCHANGED << user_input, byte_list, num, remainder, encoded, idx,
                    n_leading_zeros, base58_str >>

\* lines 62-65: num = bytes_to_int(byte_list); encoded = "".
EnterEncode(c) ==
    /\ pc[c] = "encode_base58"
    /\ num' = [num EXCEPT ![c] = bytes_to_int(byte_list[c])]
    /\ encoded' = [encoded EXCEPT ![c] = <<>>]
    /\ pc' = [pc EXCEPT ![c] = "while"]
    /\ UNCHANGED << user_input, byte_list, remainder, idx, n_leading_zeros,
                    base58_str, stdout >>

\* LoopStep with encoded a module-level variable all calls write.
LoopStepShared(c) ==
    /\ pc[c] = "while"
    /\ BigPos(num[c])
    /\ \E b \in {LoopBody(num[c], encoded[c])} :
           /\ num' = [num EXCEPT ![c] = b.num]
           /\ remainder' = [remainder EXCEPT ![c] = b.remainder]
           /\ encoded' = [d \in Callers |-> b.encoded]
    /\ UNCHANGED << pc, user_input, byte_list, idx, n_leading_zeros,
                    base58_str, stdout >>

\* LoopStep with num left as it was: remainder = num % 58 and no division.
LoopStepStuck(c) ==
    /\ pc[c] = "while"
    /\ BigPos(num[c])
    /\ \E b \in {LoopBody(num[c], encoded[c])} :
           /\ remainder' = [remainder EXCEPT ![c] = b.remainder]
           /\ encoded' = [encoded EXCEPT ![c] = b.encoded]
    /\ UNCHANGED << pc, user_input, byte_list, num, idx, n_leading_zeros,
                    base58_str, stdout >>

\* lines 66-68: one iteration of while num > 0.
LoopStep(c) ==
    /\ pc[c] = "while"
    /\ BigPos(num[c])
    /\ \E b \in {LoopBody(num[c], encoded[c])} :
           /\ num' = [num EXCEPT ![c] = b.num]
           /\ remainder' = [remainder EXCEPT ![c] = b.remainder]
           /\ encoded' = [encoded EXCEPT ![c] = b.encoded]
    /\ UNCHANGED << pc, user_input, byte_list, idx, n_leading_zeros,
                    base58_str, stdout >>

\* lines 66, 71-72: the loop ends; n_leading_zeros = 0 and the for loop starts.
LoopExit(c) ==
    /\ pc[c] = "while"
    /\ ~BigPos(num[c])
    /\ n_leading_zeros' = [n_leading_zeros EXCEPT ![c] = 0]
    /\ idx' = [idx EXCEPT ![c] = 1]
    /\ pc' = [pc EXCEPT ![c] = "for"]
    /\ UNCHANGED << user_input, byte_list, num, remainder, encoded,
                    base58_str, stdout >>

\* lines 72-74: the next byte is zero.
CountZero(c) ==
    /\ pc[c] = "for"
    /\ idx[c] <= Len(byte_list[c])
    /\ PyInt(byte_list[c][idx[c]], 16).val = 0
    /\ n_leading_zeros' = [n_leading_zeros EXCEPT ![c] = @ + 1]
    /\ idx' = [idx EXCEPT ![c] = @ + 1]
    /\ UNCHANGED << pc, user_input, byte_list, num, remainder, encoded,
                    base58_str, stdout >>

\* The for loop without the break: a byte that is not zero is skipped.
CountBreakContinue(c) ==
    /\ pc[c] = "for"
    /\ idx[c] <= Len(byte_list[c])
    /\ PyInt(byte_list[c][idx[c]], 16).val # 0
    /\ idx' = [idx EXCEPT ![c] = @ + 1]
    /\ UNCHANGED << pc, user_input, byte_list, num, remainder, encoded,
                    n_leading_zeros, base58_str, stdout >>

\* lines 75-76: the next byte is not zero: break.
CountBreak(c) ==
    /\ pc[c] = "for"
    /\ idx[c] <= Len(byte_list[c])
    /\ PyInt(byte_list[c][idx[c]], 16).val # 0
    /\ pc' = [pc EXCEPT ![c] = "return"]
    /\ UNCHANGED << user_input, byte_list, num, remainder, encoded, idx,
                    n_leading_zeros, base58_str, stdout >>

\* line 72: the list is exhausted.
CountEnd(c) ==
    /\ pc[c] = "for"
    /\ idx[c] > Len(byte_list[c])
    /\ pc' = [pc EXCEPT ![c] = "return"]
    /\ UNCHANGED << user_input, byte_list, num, remainder, encoded, idx,
                    n_leading_zeros, base58_str, stdout >>

\* line 78 (and line 83 in main): the result is returned.
Return(c) ==
    /\ pc[c] = "return"
    /\ base58_str' = [base58_str EXCEPT ![c] =
           Result(n_leading_zeros[c], encoded[c])]
    /\ pc' = [pc EXCEPT ![c] = "returned"]
    /\ UNCHANGED << user_input, byte_list, num, remainder, encoded, idx,
                    n_leading_zeros, stdout >>

\* lines 84-85: main prints the header line and the string.
PrintResult(c) ==
    /\ pc[c] = "returned"
    /\ stdout' = stdout \o
           << [msg |-> "Base58 encoded string:", arg |-> <<>>, n |-> 0],
              [msg |-> "", arg |-> base58_str[c], n |-> 0] >>
    /\ pc' = [pc EXCEPT ![c] = "done"]
    /\ UNCHANGED << user_input, byte_list, num, remainder, encoded, idx,
                    n_leading_zeros, base58_str >>

\* One run of main.
Next ==
    \/ \E c \in Callers : ParseReturn(c)
    \/ \E c \in Callers : ParseExit(c)
    \/ \E c \in Callers : EnterEncode(c)
    \/ \E c \in Callers : LoopStep(c)
    \/ \E c \in Callers : LoopExit(c)
    \/ \E c \in Callers : CountZero(c)
    \/ \E c \in Callers : CountBreak(c)
    \/ \E c \in Callers : CountEnd(c)
    \/ \E c \in Callers : Return(c)
    \/ \E c \in Callers : PrintResult(c)

\* Calls of encode_base58 alone, their steps interleaved in any order.
NextPair ==
    \/ \E c \in Callers : EnterEncode(c)
    \/ \E c \in Callers : LoopStep(c)
    \/ \E c \in Callers : LoopExit(c)
    \/ \E c \in Callers : CountZero(c)
    \/ \E c \in Callers : CountBreak(c)
    \/ \E c \in Callers : CountEnd(c)
    \/ \E c \in Callers : Return(c)

Spec == Init /\ [][Next]_vars

\* main runs to its end: a step that can be taken is taken.
FairSpec == Init /\ [][Next]_vars /\ WF_vars(Next)

PairSpec == InitPair /\ [][NextPair]_vars

(***************************************************************************)
(* Helpers of the properties                                               *)
(***************************************************************************)

\* The callers whose call of encode_base58 has returned.
Returned == {c \in Callers : pc[c] \in {"returned", "done"}}

\* The byte values of caller c's byte list.
Bytes(c) == [i \in 1..Len(byte_list[c]) |-> PyInt(byte_list[c][i], 16).val]

\* The digit a character of the alphabet stands for.
Base58Digit(ch) == (CHOOSE k \in 1..Len(BASE58_ALPHABET) : BASE58_ALPHABET[k] = ch) - 1

\* The number a Base58 numeral denotes, most significant digit first: the
\* digits lo..hi are taken into acc in order.
RECURSIVE NumeralRange(_, _, _, _)
NumeralRange(s0, acc0, lo0, hi0) ==
    CHOOSE x \in
      { IF lo > hi THEN acc
        ELSE IF lo = hi THEN BigMulAdd(acc, 58, Base58Digit(s[lo]))
        ELSE NumeralRange(s, NumeralRange(s, acc, lo, (lo + hi) \div 2),
                          ((lo + hi) \div 2) + 1, hi) :
        s \in {s0}, acc \in {acc0}, lo \in {lo0}, hi \in {hi0} } : TRUE

NumeralValue(s) == NumeralRange(s, <<>>, 1, Len(s))

\* Limb j (from 1) of n, 0 past its end.
LimbAt(n, j) == IF j <= Len(n) THEN n[j] ELSE 0

\* The bytes of a limb sequence, most significant first.  Byte k (from 0,
\* least significant) is bits 8k..8k+7, which lie in at most two limbs.
LimbsToBytes(n0) ==
    CHOOSE r \in
      { [i \in 1..((15 * Len(n) + 7) \div 8) |->
            LET k   == ((15 * Len(n) + 7) \div 8) - i
                j   == ((8 * k) \div 15) + 1
                off == (8 * k) % 15
            IN  ((LimbAt(n, j) \div (2 ^ off))
                   + LimbAt(n, j + 1) * (2 ^ (15 - off))) % 256] :
        n \in {n0} } : TRUE

\* A sequence without its leading zeros (one of "1"s for a numeral).
DropLeading(s0, zero) ==
    CHOOSE r \in
      { CHOOSE t \in
          { IF nz = {} THEN <<>>
            ELSE SubSeq(s, CHOOSE i \in nz : \A j \in nz : i <= j, Len(s)) :
              nz \in { {i \in 1..Len(s) : s[i] # zero} } } : TRUE :
        s \in {s0} } : TRUE

\* Base58 decoding: one zero byte per leading "1", then the bytes of the
\* number the numeral denotes.
Decode58(s0) ==
    CHOOSE r \in
      { [i \in 1..(Len(s) - Len(DropLeading(s, "1"))) |-> 0]
            \o DropLeading(LimbsToBytes(NumeralValue(s)), 0) :
        s \in {s0} } : TRUE

\* Byte k (from 0, least significant) of the byte values b, 0 past the end.
ByteFromLow(b, k) == IF k < Len(b) THEN b[Len(b) - k] ELSE 0

\* The big-endian magnitude of the byte values b as limbs: limb j (from 0)
\* is bits 15j..15j+14, which lie in at most three bytes.
Magnitude(b0) ==
    CHOOSE r \in
      { BigNorm([i \in 1..((8 * Len(b) + 14) \div 15) |->
            LET k   == (15 * (i - 1)) \div 8
                off == (15 * (i - 1)) % 8
            IN  ((ByteFromLow(b, k) + 256 * ByteFromLow(b, k + 1)
                    + 65536 * ByteFromLow(b, k + 2)) \div (2 ^ off)) % Limb]) :
        b \in {b0} } : TRUE

\* The number of zero bytes before the first byte that is not zero.
ZeroRun(b) == Len(b) - Len(DropLeading(b, 0))

(***************************************************************************)
(* Properties                                                              *)
(***************************************************************************)

\* C1: decoding what encode_base58 returned gives back the byte values it
\* was called with, leading zero bytes included.
RoundTrip ==
    \A c \in Returned : Decode58(base58_str[c]) = Bytes(c)

\* C1 witness: a call with several leading zero bytes and a magnitude that
\* is not zero has returned.
RoundTripCase ==
    \E c \in Returned :
        /\ ZeroRun(Bytes(c)) = 2
        /\ Len(base58_str[c]) > 2
        /\ Decode58(base58_str[c]) = Bytes(c)

\* C2: with n the run of zero bytes at the start of the input, the result is
\* n copies of "1" followed by the accumulator, which is empty or starts
\* with another character; 64 zero bytes give 64 copies of "1".
LeadingZeroFidelity ==
    \A c \in Returned :
        /\ base58_str[c] = [i \in 1..ZeroRun(Bytes(c)) |-> "1"] \o encoded[c]
        /\ encoded[c] = <<>> \/ encoded[c][1] # "1"
        /\ Bytes(c) = [i \in 1..64 |-> 0] => base58_str[c] = [i \in 1..64 |-> "1"]

\* C2 witness: the call on 64 zero bytes has returned 64 copies of "1".
AllZeroCase ==
    \E c \in Returned :
        /\ Bytes(c) = [i \in 1..64 |-> 0]
        /\ base58_str[c] = [i \in 1..64 |-> "1"]

\* C3: once the loop has ended, the accumulator read as a Base58 numeral,
\* most significant digit first, is the big-endian magnitude of the bytes;
\* 63 zero bytes and a byte 1 give 63 copies of "1" and "2".
PositionalCorrectness ==
    /\ \A c \in Callers :
           pc[c] \in {"for", "return", "returned", "done"}
               => NumeralValue(encoded[c]) = Magnitude(Bytes(c))
    /\ \A c \in Returned :
           Bytes(c) = [i \in 1..64 |-> IF i = 64 THEN 1 ELSE 0]
               => base58_str[c] = [i \in 1..64 |-> IF i = 64 THEN "2" ELSE "1"]

\* C3 witness: the call on 63 zero bytes and a byte 1 has returned.
OneCase ==
    \E c \in Returned :
        /\ Bytes(c) = [i \in 1..64 |-> IF i = 64 THEN 1 ELSE 0]
        /\ base58_str[c] = [i \in 1..64 |-> IF i = 64 THEN "2" ELSE "1"]

\* C4: the index into the alphabet is in 0..57 and every character of the
\* accumulator and of the result is one of the 58 characters of the
\* alphabet, never 0, O, I or l.
AlphabetClosure ==
    /\ Cardinality({BASE58_ALPHABET[k] : k \in 1..Len(BASE58_ALPHABET)}) = 58
    /\ \A c \in Callers :
           /\ remainder[c] \in 0..57
           /\ \A i \in 1..Len(encoded[c]) :
                 /\ encoded[c][i] \in {BASE58_ALPHABET[k] : k \in 1..58}
                 /\ encoded[c][i] \notin {"0", "O", "I", "l"}
           /\ \A i \in 1..Len(base58_str[c]) :
                 /\ base58_str[c][i] \in {BASE58_ALPHABET[k] : k \in 1..58}
                 /\ base58_str[c][i] \notin {"0", "O", "I", "l"}

\* C4 witness: the loop has used the last index, 57, and the first, 0.
LastIndexCase ==
    \E c \in Returned :
        /\ \E i \in 1..Len(encoded[c]) : encoded[c][i] = "z"
        /\ \E i \in 1..Len(encoded[c]) : encoded[c][i] = "1"

\* The parts caller c typed, as parse_input splits them.
Parts(c) == Split(Unbracket(user_input[c]))

\* Parts that are no byte: no number, or a number outside 0..255.
BadTokens ==
    { << "2", "5", "6" >>, << "-", "1" >>, << "1", "g" >>, << "0", "x" >>,
      <<>>, << "[", "0", "0" >> }

\* The run of caller c is still in parse_input, or ended there.
NotPastParse(c) == pc[c] \in {"parse_input", "exit"}

\* C5: encode_base58 is entered with 64 two-digit hex strings of values in
\* 0..255; an input that does not split into 64 parts, or has a part that
\* is no byte, never gets past parse_input; a run that exits there has
\* printed one error line and nothing of encode_base58 has run; and only a
\* run that went through encode_base58 prints anything else.
ValidationBoundary ==
    \A c \in Callers :
        /\ pc[c] = "encode_base58" =>
              /\ Len(byte_list[c]) = 64
              /\ \E b \in {Bytes(c)} :
                    \A i \in 1..64 :
                        /\ Len(byte_list[c][i]) = 2
                        /\ \A k \in 1..2 : DigitVal(byte_list[c][i][k]) < 16
                        /\ b[i] \in 0..255
        /\ ~NotPastParse(c) =>
              /\ Cardinality({i \in 1..Len(user_input[c]) : user_input[c][i] = ","}) + 1 = 64
              /\ \E parts \in {Parts(c)} :
                    \A i \in 1..Len(parts) : Strip(parts[i]) \notin BadTokens
        /\ pc[c] = "exit" =>
              /\ byte_list[c] = <<>> /\ num[c] = <<>> /\ encoded[c] = <<>>
              /\ base58_str[c] = <<>>
              /\ Len(stdout) = 1
              /\ stdout[1].msg \in {"Error: exactly 64 bytes are required",
                                    "Error parsing byte"}
        /\ pc[c] # "done" => stdout = <<>> \/ pc[c] = "exit"

\* C5 witness: a run ended in parse_input on the part 256.
OutOfRangeCase ==
    \E c \in Callers :
        /\ pc[c] = "exit"
        /\ stdout[1].msg = "Error parsing byte"
        /\ stdout[1].arg = << "2", "5", "6" >>

\* A part 0x<h> or 0X<h> with one or two hex digits <h>.
IsPrefixedHex(t) ==
    /\ Len(t) \in {3, 4}
    /\ t[1] = "0"
    /\ t[2] \in {"x", "X"}
    /\ \A k \in 3..Len(t) : DigitVal(t[k]) < 16

Upper(ch) ==
    CASE ch = "a" -> "A" [] ch = "b" -> "B" [] ch = "c" -> "C" [] ch = "d" -> "D"
      [] ch = "e" -> "E" [] ch = "f" -> "F" [] ch = "g" -> "G" [] ch = "x" -> "X"
      [] OTHER -> ch

\* A letter a-f occurs in t, in either case.
MentionsAF(t) ==
    \E i \in 1..Len(t) :
        t[i] \in {"a", "b", "c", "d", "e", "f", "A", "B", "C", "D", "E", "F"}

\* What a part is read as: the value in base 16 when a letter a-f occurs in
\* it after the prefix, in base 10 otherwise.
ReadAs(part) ==
    IF MentionsAF(Token(part)) THEN PyInt(Token(part), 16)
                               ELSE PyInt(Token(part), 10)

\* C7: 0x1a, 1A and 26 all give the byte 1a; every part is read in base 16
\* when a letter a-f occurs in it in either case and in base 10 otherwise;
\* the byte does not depend on the case of the letters.
TokenNormalization ==
    \A c \in Callers :
        pc[c] \in {"encode_base58", "exit"} =>
          \E parts \in {Parts(c)} :
            \A i \in 1..Len(parts) :
              \E part \in {parts[i]} :
                \E got \in {ParseToken(part)}, want \in {ReadAs(part)} :
                  /\ Strip(part) \in {<< "0", "x", "1", "a" >>, << "1", "A" >>,
                                      << "2", "6" >>}
                        => got.ok /\ got.hex = << "1", "a" >>
                  /\ got.ok <=> want.ok /\ want.val \in 0..255
                  /\ got.ok => PyInt(got.hex, 16).val = want.val
                  /\ ParseToken([k \in 1..Len(part) |-> Upper(part[k])]).hex
                        = got.hex
                  /\ ParseToken([k \in 1..Len(part) |-> Lower(part[k])]).hex
                        = got.hex
                  /\ pc[c] = "encode_base58" => byte_list[c][i] = got.hex

\* C7 witness: a run whose input holds the part 1A got the byte 1a for it.
UpperHexCase ==
    \E c \in Callers :
        /\ pc[c] = "encode_base58"
        /\ \E parts \in {Parts(c)} :
              \E i \in 1..Len(parts) :
                  /\ Strip(parts[i]) = << "1", "A" >>
                  /\ byte_list[c][i] = << "1", "a" >>

\* The result for 64 bytes 0xFF.
AllFFEncoded == encode_base58([i \in 1..64 |-> << "f", "f" >>])

\* C8: no result is longer than 88 characters, and no result for an input
\* without a leading zero byte is longer than the result for 64 bytes 0xFF.
LengthBound ==
    \A c \in Returned :
        /\ Len(base58_str[c]) <= 88
        /\ Bytes(c)[1] # 0 => Len(base58_str[c]) <= Len(AllFFEncoded)

\* C8 witness: the call on 64 bytes 0xFF has returned 88 characters.
AllFFCase ==
    \E c \in Returned :
        /\ Bytes(c) = [i \in 1..64 |-> 255]
        /\ Len(base58_str[c]) = 88
        /\ base58_str[c] = AllFFEncoded

\* The variables of the call of caller c.
Locals(c) ==
    << pc[c], byte_list[c], num[c], remainder[c], encoded[c], idx[c],
       n_leading_zeros[c], base58_str[c] >>

\* C9: whatever the interleaving of the steps of the calls, a call returns
\* what encode_base58 gives for its byte list run alone, no step changes
\* a byte list, and a step of one call changes nothing of another call.
Determinism ==
    /\ [](\A c \in Returned : base58_str[c] = encode_base58(byte_list[c]))
    /\ [][byte_list' = byte_list]_vars
    /\ [][\E c \in Callers :
              \A d \in Callers \ {c} : Locals(d)' = Locals(d)]_vars

\* C9 witness: two calls on different byte lists are both inside the loop,
\* each with characters accumulated.
InterleavedCase ==
    /\ Callers = {1, 2}
    /\ pc[1] = "while" /\ pc[2] = "while"
    /\ byte_list[1] # byte_list[2]
    /\ encoded[1] # <<>> /\ encoded[2] # <<>>

\* C10: num is never negative; an iteration of the loop makes num strictly
\* smaller and adds one character; the loop has run at most 88 times; with
\* magnitude 0 it has run no time when it ends and the accumulator is
\* empty; and a run that is in the loop leaves it.
LoopTerminates ==
    /\ [](\A c \in Callers :
             /\ \A j \in 1..Len(num[c]) : num[c][j] \in 0..(Limb - 1)
             /\ Len(encoded[c]) <= 88
             /\ (pc[c] = "for" /\ Bytes(c) = [i \in 1..64 |-> 0])
                   => encoded[c] = <<>>)
    /\ [][\A c \in Callers :
             (pc[c] = "while" /\ pc'[c] = "while") =>
                 /\ BigLess(num'[c], num[c])
                 /\ Len(encoded'[c]) = Len(encoded[c]) + 1]_vars
    /\ \A c \in {1} : (pc[c] = "while") ~> (pc[c] = "for")

\* C10 witness: the loop has ended after 88 iterations.
LongestLoopCase ==
    \E c \in Callers : pc[c] = "for" /\ Len(encoded[c]) = 88

=============================================================================
